---- MODULE Spec2Model ----
(***************************************************************************)
(* Stage pipeline controller of gmx-vmd-mcp: SimulationWorkflow            *)
(* (mcp_gmx_vmd/simulation.py), the process invocation gateway             *)
(* run_gromacs_command (mcp_gmx_vmd/gromacs.py), the progress monitor and  *)
(* the checkpoint store and the workflow registry                          *)
(* (mcp_gmx_vmd/workflow_manager.py).  An action is the code between two   *)
(* suspension points of a coroutine.  Spec and SpecCkpt drive one          *)
(* SimulationWorkflow instance by a caller that awaits each coroutine      *)
(* before it starts the next one; SpecReg adds the registry record,        *)
(* SpecFlight the run process in flight, SpecTasks a second task of the    *)
(* instance and SpecInst a second instance of the process; SpecService     *)
(* drives the registry operations of MCPService (mcp_gmx_vmd/service.py),  *)
(* SpecWriters two writers of one metadata file and SpecServer the tools   *)
(* of the MCP server (mcp_server.py).                                      *)
(***************************************************************************)
EXTENDS Integers, Sequences, FiniteSets, TLC

(***************************************************************************)
(* Bounds of the model.                                                    *)
(***************************************************************************)
\* number of distinct non-empty byte contents the engine may write to a file
MaxContent == 1
\* polls of the progress monitor that find neither marker, per attempt
MaxPolls == 2
\* phase runs the caller starts
MaxOps == 4
\* phase runs the caller starts in the specifications other than Spec
MaxCkptRuns == 2
\* backup_checkpoint / restore_checkpoint calls the caller makes
MaxCkptOps == 2
\* phases a status handed to update_workflow lists as completed
MaxRecorded == 2
\* commands in a list handed to execute_gromacs_command_sequence_tool
MaxCommands == 3

(***************************************************************************)
(* SimulationStep (models.py 37-44).                                       *)
(***************************************************************************)
SYSTEM_PREPARATION == "system_preparation"
MINIMIZATION == "minimization"
NVT_EQUILIBRATION == "nvt_equilibration"
NPT_EQUILIBRATION == "npt_equilibration"
PRODUCTION == "production"
ANALYSIS == "analysis"

SimulationStep ==
  {SYSTEM_PREPARATION, MINIMIZATION, NVT_EQUILIBRATION, NPT_EQUILIBRATION,
   PRODUCTION, ANALYSIS}

\* the phases the controller has a run operation for, in the order of the enum
RunOrder == <<MINIMIZATION, NVT_EQUILIBRATION, NPT_EQUILIBRATION, PRODUCTION>>

RunSteps == {RunOrder[i] : i \in 1..Len(RunOrder)}

\* the fixed phase order: the member of SimulationStep declared before step
Predecessor(step) ==
  CASE step = MINIMIZATION -> SYSTEM_PREPARATION
    [] step = NVT_EQUILIBRATION -> MINIMIZATION
    [] step = NPT_EQUILIBRATION -> NVT_EQUILIBRATION
    [] step = PRODUCTION -> NPT_EQUILIBRATION
    [] step = ANALYSIS -> PRODUCTION
    [] OTHER -> "none"

(***************************************************************************)
(* Files.  A file is Absent, Empty (size 0) or holds a content 1..n.  The  *)
(* content of a log file stands for its last line.                         *)
(***************************************************************************)
Absent == -1
Empty == 0
\* last line contains "Finished mdrun"
LogDone == 1
\* last line contains "Fatal error" and not "Finished mdrun"
LogFatal == 2
\* last line contains neither marker
LogOther == 3

LogContents == {LogDone, LogFatal, LogOther}

DataContents == 1..MaxContent

\* required_files of each run_* method, in list order
required_files(step) ==
  CASE step = MINIMIZATION -> <<"em.gro", "em.edr", "em.log">>
    [] step = NVT_EQUILIBRATION -> <<"nvt.gro", "nvt.edr", "nvt.log", "nvt.cpt">>
    [] step = NPT_EQUILIBRATION -> <<"npt.gro", "npt.edr", "npt.log", "npt.cpt">>
    [] step = PRODUCTION -> <<"md.gro", "md.edr", "md.log", "md.xtc", "md.cpt">>
    [] OTHER -> <<>>

\* files_to_backup with one file of a phase left out of its list
files_to_backup_short(step) ==
  CASE step = MINIMIZATION -> <<"em.gro", "em.edr", "em.log">>
    [] step = NVT_EQUILIBRATION -> <<"nvt.gro", "nvt.edr", "nvt.log">>
    [] step = NPT_EQUILIBRATION -> <<"npt.gro", "npt.edr", "npt.log", "npt.cpt">>
    [] step = PRODUCTION -> <<"md.gro", "md.edr", "md.log", "md.xtc", "md.cpt">>
    [] OTHER -> <<>>

\* files_to_backup.get(step, [])
files_to_backup(step) ==
  CASE step = MINIMIZATION -> <<"em.gro", "em.edr", "em.log">>
    [] step = NVT_EQUILIBRATION -> <<"nvt.gro", "nvt.edr", "nvt.log", "nvt.cpt">>
    [] step = NPT_EQUILIBRATION -> <<"npt.gro", "npt.edr", "npt.log", "npt.cpt">>
    [] step = PRODUCTION -> <<"md.gro", "md.edr", "md.log", "md.xtc", "md.cpt">>
    [] OTHER -> <<>>

\* files_to_restore.get(step, [])
files_to_restore(step) ==
  CASE step = MINIMIZATION -> <<"em.gro", "em.edr", "em.log">>
    [] step = NVT_EQUILIBRATION -> <<"nvt.gro", "nvt.edr", "nvt.log", "nvt.cpt">>
    [] step = NPT_EQUILIBRATION -> <<"npt.gro", "npt.edr", "npt.log", "npt.cpt">>
    [] step = PRODUCTION -> <<"md.gro", "md.edr", "md.log", "md.xtc", "md.cpt">>
    [] OTHER -> <<>>

\* the log file each run_* method hands to _monitor_progress
log_file(step) ==
  CASE step = MINIMIZATION -> "em.log"
    [] step = NVT_EQUILIBRATION -> "nvt.log"
    [] step = NPT_EQUILIBRATION -> "npt.log"
    [] OTHER -> "md.log"

Range(s) == {s[i] : i \in 1..Len(s)}

AllFiles == UNION {Range(required_files(s)) : s \in RunSteps}

LogFiles == {log_file(s) : s \in RunSteps}

ContentsOf(file) ==
  IF file \in LogFiles THEN LogContents ELSE DataContents

(***************************************************************************)
(* Context (gromacs.py 10-15).  The caller passes None, a context whose    *)
(* working_dir is the directory the workflow was constructed in            *)
(* (work_dir = Path.cwd()), or a context with another working_dir.         *)
(***************************************************************************)
CtxNone == "None"
CtxCwd == "cwd"
CtxOther == "other"

Contexts == {CtxNone, CtxCwd, CtxOther}

\* exit codes of the engine process; SpawnFailed stands for the exception
\* create_subprocess_exec raises when the binary cannot be started
SpawnFailed == -1
ExitCodes == {0, 1}
EngineOutcomes == ExitCodes \cup {SpawnFailed}

(***************************************************************************)
(* run_gromacs_command (gromacs.py 25-110): ctx.gmx_path is read before    *)
(* the try block, so a None context raises AttributeError to the caller;   *)
(* every failure inside the try block comes back as return_code -1.        *)
(***************************************************************************)
\* run_gromacs_command with success derived from the wrong test: a process
\* that was started counts as a success
run_gromacs_command_started(ctx, outcome) ==
  IF ctx = CtxNone
  THEN [raised |-> TRUE, return_code |-> SpawnFailed, success |-> FALSE]
  ELSE IF outcome = SpawnFailed
  THEN [raised |-> FALSE, return_code |-> -1, success |-> FALSE]
  ELSE [raised |-> FALSE, return_code |-> outcome, success |-> TRUE]

run_gromacs_command(ctx, outcome) ==
  IF ctx = CtxNone
  THEN [raised |-> TRUE, return_code |-> SpawnFailed, success |-> FALSE]
  ELSE IF outcome = SpawnFailed
  THEN [raised |-> FALSE, return_code |-> -1, success |-> FALSE]
  ELSE [raised |-> FALSE, return_code |-> outcome, success |-> (outcome = 0)]

(***************************************************************************)
(* _monitor_progress (simulation.py 76-100): one poll of the loop.  A log  *)
(* that does not exist, has no line, or whose last line holds neither      *)
(* marker makes the loop sleep and poll again.                             *)
(***************************************************************************)
\* monitor_verdict with the fatal marker not recognised
monitor_verdict_nofatal(content) ==
  IF content = Absent THEN "pending"
  ELSE IF content = Empty THEN "pending"
  ELSE IF content = LogDone THEN "done"
  ELSE "pending"

monitor_verdict(content) ==
  IF content = Absent THEN "pending"
  ELSE IF content = Empty THEN "pending"
  ELSE IF content = LogDone THEN "done"
  ELSE IF content = LogFatal THEN "failed"
  ELSE "pending"

\* the line carried by the error _monitor_progress raises on the fatal
\* marker: SimulationError(f"{step} ...") is built from the step alone, the
\* last line goes to logger.error only
NoLine == -3
monitor_error_line(content) == NoLine

\* check_output_files without the st_size test
check_output_files_nosize(step, w) ==
  \A i \in 1..Len(required_files(step)) : w[required_files(step)[i]] # Absent

\* _check_output_files (simulation.py 45-55)
check_output_files(step, w) ==
  \A i \in 1..Len(required_files(step)) :
    /\ w[required_files(step)[i]] # Absent
    /\ w[required_files(step)[i]] # Empty

\* _validate_energy (simulation.py 57-74): the gateway is invoked with ctx
\* None; an exception of the call is caught and reported as False
validate_energy(outcome) ==
  LET r == run_gromacs_command(CtxNone, outcome)
  IN IF r.raised THEN FALSE ELSE r.return_code = 0

\* the test of the prepare step's result left out
grompp_rejected_never(result) == FALSE

\* the test after the prepare step: if grompp_result.return_code != 0: raise
grompp_rejected(result) == result.return_code # 0

\* the precondition check at the head of each run_* method; run_minimization
\* has none
precondition_holds(step, completed) ==
  CASE step = NVT_EQUILIBRATION -> \E i \in 1..Len(completed) : completed[i] = MINIMIZATION
    [] step = NPT_EQUILIBRATION -> \E i \in 1..Len(completed) : completed[i] = NVT_EQUILIBRATION
    [] step = PRODUCTION -> \E i \in 1..Len(completed) : completed[i] = NPT_EQUILIBRATION
    [] OTHER -> TRUE

(***************************************************************************)
(* str(e) of the exceptions the run_* methods record.                      *)
(***************************************************************************)
NoError == ""
ErrOrder == "predecessor step must be completed first"
ErrGrompp == "TPR generation failed"
ErrMonitor == "simulation failed"
ErrFiles == "output file validation failed"
ErrEnergy == "energy validation failed"
ErrException == "'NoneType' object has no attribute 'gmx_path'"

\* record_error with the assignment to errors left out
record_error_dropped(errs, step, msg) == errs

\* the except clause of each run_* method: self.status.errors[step] = str(e)
record_error(errs, step, msg) == [errs EXCEPT ![step] = msg]

\* the success path of each run_* method: completed_steps.append(step)
append_completed(completed, step) == Append(completed, step)

(***************************************************************************)
(* Checkpoint store (simulation.py 338-396).  cp holds the copies under    *)
(* checkpoints/<step>/; file names are unique across steps.                *)
(***************************************************************************)
\* backup_checkpoint copying every file of the working directory, whatever
\* the phase
backup_copy_all(files, w, c) ==
  [f \in AllFiles |-> IF w[f] # Absent THEN w[f] ELSE c[f]]

RECURSIVE backup_copy(_, _, _)
\* the loop of backup_checkpoint: copy every listed file that exists
backup_copy(files, w, c) ==
  IF files = <<>> THEN c
  ELSE IF w[Head(files)] # Absent
  THEN backup_copy(Tail(files), w, [c EXCEPT ![Head(files)] = w[Head(files)]])
  ELSE backup_copy(Tail(files), w, c)

RECURSIVE restore_copy(_, _, _)
\* the loop of restore_checkpoint: copy back in list order, return False at
\* the first listed file the checkpoint directory does not hold
restore_copy(files, w, c) ==
  IF files = <<>> THEN [ok |-> TRUE, work |-> w]
  ELSE IF c[Head(files)] # Absent
  THEN restore_copy(Tail(files), [w EXCEPT ![Head(files)] = c[Head(files)]], c)
  ELSE [ok |-> FALSE, work |-> w]

(***************************************************************************)
(* The workflow registry (workflow_manager.py): the status stored in the   *)
(* metadata.json of the pipeline.                                          *)
(***************************************************************************)
\* SimulationStatus() (models.py 46-52)
DefaultStatus ==
  [current_step |-> "none", completed_steps |-> <<>>,
   errors |-> [s \in RunSteps |-> NoError]]

PhaseOrder ==
  <<SYSTEM_PREPARATION, MINIMIZATION, NVT_EQUILIBRATION, NPT_EQUILIBRATION,
    PRODUCTION>>

\* the position of a phase in the fixed order
StepIndex(step) == CHOOSE i \in 1..Len(PhaseOrder) : PhaseOrder[i] = step

\* the statuses a caller of update_workflow hands in: the pipeline has
\* completed the first k phases
CallerStatuses ==
  {[current_step |-> IF k = 0 THEN "none" ELSE PhaseOrder[k],
    completed_steps |-> SubSeq(PhaseOrder, 1, k),
    errors |-> [s \in RunSteps |-> NoError]] : k \in 0..MaxRecorded}

\* the status prepare_simulation stores when it succeeds (service.py 690-696)
PreparedStatus ==
  [current_step |-> SYSTEM_PREPARATION,
   completed_steps |-> <<SYSTEM_PREPARATION>>,
   errors |-> [s \in RunSteps |-> NoError]]

\* names and parameter snapshots of a record; NoParams for params None
Names == {"md", "md-run-2"}
NoParams == "None"
Params == {NoParams, "CompleteSimulationParams"}

\* WorkflowMetadata.to_dict of a record that json.dump writes
to_dict(name, params, status) ==
  [exists |-> TRUE, name |-> name, params |-> params, status |-> status]

NoDocument == [to_dict("md", NoParams, DefaultStatus) EXCEPT !.exists = FALSE]

\* import_workflow: from_dict of the document, then create_workflow with the
\* name, the description and the params of it; WorkflowMetadata gives the
\* new record the status SimulationStatus()
import_workflow(data) ==
  to_dict(data.name, data.params, DefaultStatus)

\* the size of the text json.dump writes for a document: it grows with the
\* name, with the parameter snapshot and with each listed phase
DocLength(doc) ==
  (IF doc.name = "md" THEN 2 ELSE 8)
    + (IF doc.params = NoParams THEN 4 ELSE 400)
    + 20 * Len(doc.status.completed_steps)

\* the processes that call update_workflow on the record of one pipeline
Writers == {1, 2}

\* the gateway calls prepare_simulation awaits one after the other
PrepareCommands == <<"pdb2gmx", "editconf", "solvate", "grompp", "genion">>

\* WorkflowManager.update_workflow(workflow_id, status=...): the stored
\* status is replaced as a whole when a status is given
update_workflow(stored, given, status) == IF given THEN status ELSE stored

(***************************************************************************)
(* The MCP server tools (src/mcp_server.py).  The workflow directory is    *)
(* the set of the files that exist in it.                                  *)
(***************************************************************************)
StageNames == {"minimization", "nvt", "npt", "production"}
UnknownStage == "unknown"

\* the files prepare_simulation writes that the stage commands read
PreparedFiles ==
  {"solv_ions.gro", "em/em.mdp", "nvt/nvt.mdp", "npt/npt.mdp", "md/md.mdp"}

\* a command of a list: the files of its options -c -s -f -r -t -n, which
\* execute_gromacs_command requires to exist, and the files the engine writes
Command(command, inputs, outputs) ==
  [command |-> command, inputs |-> inputs, outputs |-> outputs]

\* run_md_simulation_stage_tool without the else branch of the stage name
stage_commands_default(stage) ==
  CASE stage = "nvt" ->
         <<Command("grompp", {"nvt/nvt.mdp", "em/em.gro"}, {"nvt/nvt.tpr"}),
           Command("mdrun", {"nvt/nvt.tpr"}, {"nvt/nvt.gro", "nvt/nvt.cpt"})>>
    [] stage = "npt" ->
         <<Command("grompp", {"npt/npt.mdp", "nvt/nvt.gro", "nvt/nvt.cpt"},
                   {"npt/npt.tpr"}),
           Command("mdrun", {"npt/npt.tpr"}, {"npt/npt.gro", "npt/npt.cpt"})>>
    [] stage = "production" ->
         <<Command("grompp", {"md/md.mdp", "npt/npt.gro", "npt/npt.cpt"},
                   {"md/md.tpr"}),
           Command("mdrun", {"md/md.tpr"}, {"md/md.gro"})>>
    [] OTHER ->
         <<Command("grompp", {"em/em.mdp", "solv_ions.gro"}, {"em/em.tpr"}),
           Command("mdrun", {"em/em.tpr"}, {"em/em.gro"})>>

\* the command list run_md_simulation_stage_tool builds for a stage; the
\* empty list stands for the else branch, which returns the failure
stage_commands(stage) ==
  CASE stage = "minimization" ->
         <<Command("grompp", {"em/em.mdp", "solv_ions.gro"}, {"em/em.tpr"}),
           Command("mdrun", {"em/em.tpr"}, {"em/em.gro"})>>
    [] stage = "nvt" ->
         <<Command("grompp", {"nvt/nvt.mdp", "em/em.gro"}, {"nvt/nvt.tpr"}),
           Command("mdrun", {"nvt/nvt.tpr"}, {"nvt/nvt.gro", "nvt/nvt.cpt"})>>
    [] stage = "npt" ->
         <<Command("grompp", {"npt/npt.mdp", "nvt/nvt.gro", "nvt/nvt.cpt"},
                   {"npt/npt.tpr"}),
           Command("mdrun", {"npt/npt.tpr"}, {"npt/npt.gro", "npt/npt.cpt"})>>
    [] stage = "production" ->
         <<Command("grompp", {"md/md.mdp", "npt/npt.gro", "npt/npt.cpt"},
                   {"md/md.tpr"}),
           Command("mdrun", {"md/md.tpr"}, {"md/md.gro"})>>
    [] OTHER -> <<>>

\* the checks of run_md_simulation_stage_tool on the outputs of the
\* predecessors (mcp_server.py 982-1010)
prerequisites_met(stage, dir) ==
  /\ stage # "minimization" => "em/em.gro" \in dir
  /\ stage \in {"npt", "production"} =>
       ("nvt/nvt.gro" \in dir /\ "nvt/nvt.cpt" \in dir)
  /\ stage = "production" =>
       ("npt/npt.gro" \in dir /\ "npt/npt.cpt" \in dir)

\* the loop of the sequence tool goes on after a command that failed
stops_sequence_never(success) == FALSE

\* the break of the loop of the sequence tool: if not result["success"]
stops_sequence(success) == ~ success

\* all(r["success"] for r in results)
all_success(results) == \A i \in 1..Len(results) : results[i]

\* the next_commands list prepare_simulation returns to the client
AllCommands ==
  stage_commands("minimization") \o stage_commands("nvt")
    \o stage_commands("npt") \o stage_commands("production")

\* the lists a client hands to the sequence tool
SequenceInputs ==
  {SubSeq(AllCommands, p[1], p[2]) :
     p \in {q \in (1..Len(AllCommands)) \X (0..Len(AllCommands)) :
              q[2] >= q[1] - 1 /\ q[2] - q[1] + 1 <= MaxCommands}}

(***************************************************************************)
(* State.                                                                  *)
(***************************************************************************)
VARIABLES
  current_step,     \* self.status.current_step, "none" for None
  completed_steps,  \* self.status.completed_steps
  errors,           \* self.status.errors, NoError for a missing key
  work,             \* the files of self.work_dir
  cpDir,            \* cpDir[s]: checkpoints/<s>/ exists
  cp,               \* the files under checkpoints/
  pc,               \* position of the run_* coroutine in flight
  att,              \* the phase attempt in flight, or the last one
  gw,               \* the last invocation of run_gromacs_command
  ckpt,             \* the last backup_checkpoint / restore_checkpoint call
  untouched,        \* untouched[s]: no write to s's files since backup(s)
  attempted,        \* the steps whose run_* method has been invoked
  driven,           \* phases run so far in order by a stub engine, -1 if not
  ops,              \* phase runs the caller has started
  ckptOps,          \* checkpoint calls the caller has made
  registry,         \* the status stored in the pipeline's registry record
  startRecord,      \* completed_steps of the record when __init__ ran
  parked,           \* a second run_* task of the instance, not scheduled now
  other,            \* a second SimulationWorkflow instance of the process
  inst,             \* the instance whose fields the variables above hold
  artifactUsers,    \* instances that read or wrote a file of self.work_dir
  validated,        \* steps an attempt of which passed _check_output_files
  metadata,         \* the record file apart from its status: state, name, params
  exported,         \* the document export_workflow wrote
  imported,         \* the record import_workflow created, and from what
  prep,             \* the prepare_simulation call in flight, or the last one
  writers,          \* writers[w]: the update_workflow call of process w
  lastSave,         \* the document of the last _save_metadata that finished
  server,           \* the server tool call in flight, or the last one
  stageDir          \* the files that exist in the workflow directory

vars ==
  <<current_step, completed_steps, errors, work, cpDir, cp, pc, att, gw, ckpt,
    untouched, attempted, driven, ops, ckptOps, registry, startRecord, parked, other, inst, artifactUsers,
    validated, metadata, exported, imported, prep, writers, lastSave, server,
    stageDir>>

\* what the methods of SimulationWorkflow neither read nor write
\* the state of the service layer apart from the status of the record
serviceState == <<metadata, exported, imported, prep, writers, lastSave>>

\* the state of the server tools
serverState == <<server, stageDir>>

outside ==
  <<registry, startRecord, parked, other, inst, serviceState, serverState>>

NotRun == -2
Keep == -2

NoAttempt ==
  [step |-> "none", ctx |-> CtxCwd, result |-> "none", predMissing |-> FALSE,
   fails |-> {}, gwCalls |-> 0, gwAfterFail |-> FALSE,
   sawFatal |-> FALSE, sawDone |-> FALSE, runExit |-> NotRun, polls |-> 0,
   cpDirAtStart |-> FALSE, occBefore |-> 0, incomplete |-> FALSE,
   fatalInFlight |-> FALSE, lastSeen |-> NoLine, signalLine |-> NoLine,
   wroteAll |-> FALSE]

NoToolCall ==
  [pc |-> "idle", tool |-> "none", known |-> TRUE, stage |-> "none",
   input |-> <<>>, executed |-> <<>>, results |-> <<>>, engineCalls |-> 0,
   ret |-> "none"]

NoGateway ==
  [cmd |-> "none", ctx |-> CtxCwd, outcome |-> 0, raised |-> FALSE,
   return_code |-> 0, success |-> TRUE]

NoCheckpointCall ==
  [op |-> "none", step |-> "none", ok |-> TRUE, changed |-> FALSE,
   fresh |-> FALSE, complete |-> FALSE, overwrote |-> FALSE]

\* the working directory the workflow is constructed in: empty, or left by a
\* pipeline that ran its first k phases
InitWork(k) ==
  [f \in AllFiles |->
     IF \E i \in 1..k : f \in Range(required_files(RunOrder[i])) THEN 1 ELSE Absent]

Init ==
  /\ current_step = "none"
  /\ completed_steps = <<>>
  /\ errors = [s \in RunSteps |-> NoError]
  /\ \E k \in 0..Len(RunOrder) : work = InitWork(k)
  /\ cpDir = [s \in SimulationStep |-> FALSE]
  /\ cp = [f \in AllFiles |-> Absent]
  /\ pc = "idle"
  /\ att = NoAttempt
  /\ gw = NoGateway
  /\ ckpt = NoCheckpointCall
  /\ untouched = [s \in SimulationStep |-> FALSE]
  /\ attempted = {}
  /\ driven = 0
  /\ ops = 0
  /\ ckptOps = 0
  /\ registry = DefaultStatus
  /\ startRecord = <<>>
  /\ parked = [pc |-> "idle", att |-> NoAttempt]
  /\ other = [current_step |-> DefaultStatus.current_step,
              completed_steps |-> DefaultStatus.completed_steps,
              errors |-> DefaultStatus.errors,
              pc |-> "idle", att |-> NoAttempt, attempted |-> {}]
  /\ inst = 1
  /\ artifactUsers = {}
  /\ validated = {}
  /\ metadata = [state |-> "saved", name |-> "md", params |-> NoParams,
                 length |-> 0]
  /\ exported = NoDocument
  /\ imported = [record |-> NoDocument, document |-> NoDocument]
  /\ prep = [pc |-> 0, result |-> "none"]
  /\ writers = [w \in Writers |-> [pc |-> "idle", ok |-> TRUE, doc |-> NoDocument]]
  /\ lastSave = [by |-> 0, doc |-> NoDocument]
  /\ server = NoToolCall
  /\ stageDir = {}

(***************************************************************************)
(* Helpers of the actions.                                                 *)
(***************************************************************************)
InCompleted(step) == \E i \in 1..Len(completed_steps) : completed_steps[i] = step

\* how often step occurs in the list completed
Occurrences(completed, step) ==
  Cardinality({i \in 1..Len(completed) : completed[i] = step})

\* some file of the required output set of step is missing or has size 0
OutputIncomplete(step, w) ==
  \E f \in Range(required_files(step)) : w[f] = Absent \/ w[f] = Empty

\* a failure of one of the kinds of the error taxonomy occurs in an attempt
NoteFailure(a, kind) == [a EXCEPT !.fails = @ \cup {kind}]

\* a gateway invocation made by the attempt
Invoked(a) ==
  [a EXCEPT !.gwCalls = @ + 1, !.gwAfterFail = @ \/ a.fails # {}]

GatewayRecord(cmd, ctx, outcome, r) ==
  [cmd |-> cmd, ctx |-> ctx, outcome |-> outcome, raised |-> r.raised,
   return_code |-> r.return_code, success |-> r.success]

\* the except clause of a run_* method: record str(e) and re-raise
EndFailed(a, msg) ==
  /\ pc' = "idle"
  /\ att' = [a EXCEPT !.result = "failed"]
  /\ errors' = record_error(errors, a.step, msg)
  /\ UNCHANGED completed_steps

\* what the engine may do to each file of the phase it runs
EngineWrites(step) ==
  [Range(required_files(step)) -> {Keep, Empty} \cup LogContents \cup DataContents]

WellFormedWrite(step, wr) ==
  \A f \in Range(required_files(step)) :
    wr[f] \in {Keep, Empty} \cup ContentsOf(f)

\* the stub engine of the end-to-end property: every required file written
\* non-empty, the completion marker last in the log
StubWrite(step, wr) ==
  \A f \in Range(required_files(step)) :
    /\ wr[f] \notin {Keep, Empty}
    /\ f = log_file(step) => wr[f] = LogDone

ApplyWrites(step, w, wr) ==
  [f \in AllFiles |->
     IF f \in Range(required_files(step)) /\ wr[f] # Keep THEN wr[f] ELSE w[f]]

(***************************************************************************)
(* run_minimization / run_nvt_equilibration / run_npt_equilibration /      *)
(* run_production (simulation.py 102-332), up to the first await.          *)
(***************************************************************************)
StartRun(step, ctx) ==
  /\ pc = "idle"
  /\ ops < MaxOps
  /\ ops' = ops + 1
  /\ current_step' = step
  /\ attempted' = attempted \cup {step}
  /\ gw' = NoGateway
  /\ ckpt' = NoCheckpointCall
  /\ driven' = IF /\ driven >= 0
                  /\ driven < Len(RunOrder)
                  /\ ctx = CtxCwd
                  /\ step = RunOrder[driven + 1]
               THEN driven + 1
               ELSE -1
  /\ LET missing == ~ InCompleted(Predecessor(step))
         a == [NoAttempt EXCEPT !.step = step, !.ctx = ctx,
                                !.predMissing = missing,
                                !.fails = IF missing THEN {"order"} ELSE {},
                                !.cpDirAtStart = cpDir[step],
                                !.occBefore = Occurrences(completed_steps, step)]
     IN IF precondition_holds(step, completed_steps)
        THEN /\ pc' = "grompp"
             /\ att' = [a EXCEPT !.result = "running"]
             /\ UNCHANGED <<errors, completed_steps>>
        ELSE EndFailed(a, ErrOrder)
  /\ UNCHANGED <<work, cpDir, cp, untouched, ckptOps>>
  /\ UNCHANGED outside
  /\ UNCHANGED <<artifactUsers, validated>>

\* the prepare step: await run_gromacs_command(ctx, "grompp", ...)
Grompp(outcome) ==
  /\ pc = "grompp"
  /\ LET r == run_gromacs_command(att.ctx, outcome)
         a == Invoked(att)
     IN /\ gw' = GatewayRecord("grompp", att.ctx, outcome, r)
        /\ IF r.raised
           THEN EndFailed(a, ErrException)
           ELSE IF grompp_rejected(r)
           THEN EndFailed(NoteFailure(a, IF outcome = SpawnFailed
                                       THEN "spawn_prepare"
                                       ELSE "exit_prepare"), ErrGrompp)
           ELSE /\ pc' = "mdrun"
                /\ att' = a
                /\ UNCHANGED <<errors, completed_steps>>
        /\ driven' = IF r.raised \/ r.return_code # 0 THEN -1 ELSE driven
  /\ UNCHANGED <<current_step, work, cpDir, cp, ckpt, untouched, attempted, ops, ckptOps>>
  /\ UNCHANGED outside
  /\ artifactUsers' = IF att.ctx = CtxCwd /\ outcome # SpawnFailed
                      THEN artifactUsers \cup {inst}
                      ELSE artifactUsers
  /\ UNCHANGED validated

\* the run step: await run_gromacs_command(ctx, "mdrun", ...); the engine
\* runs to its exit in ctx.working_dir; the result is not inspected
Mdrun(outcome, wr) ==
  /\ pc = "mdrun"
  /\ WellFormedWrite(att.step, wr)
  /\ LET r == run_gromacs_command(att.ctx, outcome)
         a == Invoked(att)
         ran == ~ r.raised /\ outcome # SpawnFailed
         w == IF ran /\ att.ctx = CtxCwd
              THEN ApplyWrites(att.step, work, wr)
              ELSE work
     IN /\ gw' = GatewayRecord("mdrun", att.ctx, outcome, r)
        /\ work' = w
        /\ untouched' = [untouched EXCEPT ![att.step] = @ /\ w = work]
        /\ IF r.raised
           THEN EndFailed(a, ErrException)
           ELSE /\ pc' = "monitor"
                /\ att' = [(IF r.return_code = 0 THEN a
                            ELSE NoteFailure(a, IF outcome = SpawnFailed
                                              THEN "spawn_run"
                                              ELSE "exit_run"))
                           EXCEPT !.runExit = r.return_code,
                                  !.wroteAll = ran /\ StubWrite(att.step, wr)]
                /\ UNCHANGED <<errors, completed_steps>>
        /\ driven' = IF ran /\ outcome = 0 /\ StubWrite(att.step, wr)
                     THEN driven
                     ELSE -1
  /\ UNCHANGED <<current_step, cpDir, cp, ckpt, attempted, ops, ckptOps>>
  /\ UNCHANGED outside
  /\ artifactUsers' = IF att.ctx = CtxCwd /\ outcome # SpawnFailed
                      THEN artifactUsers \cup {inst}
                      ELSE artifactUsers
  /\ UNCHANGED validated

(***************************************************************************)
(* The run step with the engine process in flight: the coroutine is        *)
(* suspended in process.communicate() (gromacs.py 66-74) from the start of *)
(* the process to its exit, while the engine writes its files.             *)
(***************************************************************************)
\* create_subprocess_shell: the process starts, or the gateway returns -1
MdrunSpawn(started) ==
  /\ pc = "mdrun"
  /\ LET r == run_gromacs_command(att.ctx, SpawnFailed)
         a == Invoked(att)
     IN IF r.raised
        THEN /\ gw' = GatewayRecord("mdrun", att.ctx, SpawnFailed, r)
             /\ EndFailed(a, ErrException)
        ELSE IF ~ started
        THEN /\ gw' = GatewayRecord("mdrun", att.ctx, SpawnFailed, r)
             /\ pc' = "monitor"
             /\ att' = [NoteFailure(a, "spawn_run") EXCEPT !.runExit = r.return_code]
             /\ UNCHANGED <<errors, completed_steps>>
        ELSE /\ pc' = "running"
             /\ att' = a
             /\ UNCHANGED <<gw, errors, completed_steps>>
  /\ driven' = -1
  /\ UNCHANGED <<current_step, work, cpDir, cp, ckpt, untouched, attempted,
                 ops, ckptOps>>
  /\ UNCHANGED outside
  /\ UNCHANGED <<artifactUsers, validated>>

\* the engine in flight writes one file of its phase in ctx.working_dir
EngineWrite(f, content) ==
  /\ pc = "running"
  /\ att.ctx = CtxCwd
  /\ f \in Range(required_files(att.step))
  /\ content \in {Empty} \cup ContentsOf(f)
  /\ work[f] # content
  /\ work' = [work EXCEPT ![f] = content]
  /\ untouched' = [untouched EXCEPT ![att.step] = FALSE]
  /\ att' = [att EXCEPT !.fatalInFlight =
                 IF f = log_file(att.step) THEN content = LogFatal ELSE @]
  /\ UNCHANGED <<current_step, completed_steps, errors, cpDir, cp, pc, gw,
                 ckpt, attempted, driven, ops, ckptOps>>
  /\ UNCHANGED outside
  /\ artifactUsers' = artifactUsers \cup {inst}
  /\ UNCHANGED validated

\* the process exits and communicate() returns; the result is not inspected
MdrunExit(outcome) ==
  /\ pc = "running"
  /\ outcome \in ExitCodes
  /\ LET r == run_gromacs_command(att.ctx, outcome)
     IN /\ gw' = GatewayRecord("mdrun", att.ctx, outcome, r)
        /\ att' = [(IF r.return_code = 0 THEN att
                    ELSE NoteFailure(att, "exit_run"))
                   EXCEPT !.runExit = r.return_code]
  /\ pc' = "monitor"
  /\ UNCHANGED <<current_step, completed_steps, errors, work, cpDir, cp, ckpt,
                 untouched, attempted, driven, ops, ckptOps>>
  /\ UNCHANGED outside
  /\ UNCHANGED <<artifactUsers, validated>>

\* one poll of _monitor_progress(step, "<x>.log") and, when the loop breaks,
\* the rest of the run_* method, which has no further suspension point:
\* _check_output_files, _validate_energy, the append to completed_steps
MonitorPoll(outcome) ==
  /\ pc = "monitor"
  /\ LET content == work[log_file(att.step)]
         verdict == monitor_verdict(content)
         seen == [att EXCEPT !.sawFatal = @ \/ content = LogFatal,
                             !.sawDone = @ \/ content = LogDone,
                             !.incomplete = /\ content = LogDone
                                            /\ OutputIncomplete(att.step, work),
                             !.lastSeen = content]
         r == run_gromacs_command(CtxNone, outcome)
     IN IF verdict = "pending"
        THEN /\ att.polls < MaxPolls
             /\ att' = [seen EXCEPT !.polls = @ + 1]
             /\ UNCHANGED <<pc, errors, completed_steps, gw, driven>>
        ELSE IF verdict = "failed"
        THEN /\ EndFailed(NoteFailure([seen EXCEPT !.signalLine =
                                             monitor_error_line(content)],
                                       "fatal"), ErrMonitor)
             /\ UNCHANGED <<gw, driven>>
        ELSE IF ~ check_output_files(att.step, work)
        THEN /\ EndFailed(NoteFailure(seen, "files"), ErrFiles)
             /\ UNCHANGED <<gw, driven>>
        ELSE /\ gw' = GatewayRecord("energy", CtxNone, outcome, r)
             /\ driven' = IF r.raised \/ outcome = 0 THEN driven ELSE -1
             /\ IF ~ validate_energy(outcome)
                THEN EndFailed(Invoked(seen), ErrEnergy)
                ELSE /\ pc' = "idle"
                     /\ att' = [Invoked(seen) EXCEPT !.result = "success"]
                     /\ completed_steps' = append_completed(completed_steps, att.step)
                     /\ UNCHANGED errors
  /\ UNCHANGED <<current_step, work, cpDir, cp, ckpt, untouched, attempted,
                 ops, ckptOps>>
  /\ UNCHANGED outside
  /\ artifactUsers' = artifactUsers \cup {inst}
  /\ validated' = IF /\ monitor_verdict(work[log_file(att.step)]) = "done"
                     /\ check_output_files(att.step, work)
                  THEN validated \cup {att.step}
                  ELSE validated

(***************************************************************************)
(* backup_checkpoint (simulation.py 338-363).                              *)
(***************************************************************************)
Backup(step) ==
  /\ pc = "idle"
  /\ ckptOps < MaxCkptOps
  /\ ckptOps' = ckptOps + 1
  /\ cpDir' = [cpDir EXCEPT ![step] = TRUE]
  /\ cp' = backup_copy(files_to_backup(step), work, cp)
  /\ untouched' = [untouched EXCEPT ![step] = TRUE]
  /\ ckpt' = [op |-> "backup", step |-> step, ok |-> TRUE, changed |-> FALSE,
              fresh |-> FALSE,
              complete |-> \A f \in Range(required_files(step)) : work[f] # Absent,
              overwrote |-> cpDir[step] /\ cp' # cp]
  /\ att' = NoAttempt
  /\ gw' = NoGateway
  /\ UNCHANGED <<current_step, completed_steps, errors, work, pc, attempted,
                 driven, ops>>
  /\ UNCHANGED outside
  /\ artifactUsers' = artifactUsers \cup {inst}
  /\ UNCHANGED validated

(***************************************************************************)
(* restore_checkpoint (simulation.py 365-396).                             *)
(***************************************************************************)
Restore(step) ==
  /\ pc = "idle"
  /\ ckptOps < MaxCkptOps
  /\ ckptOps' = ckptOps + 1
  /\ LET r == IF cpDir[step]
              THEN restore_copy(files_to_restore(step), work, cp)
              ELSE [ok |-> FALSE, work |-> work]
     IN /\ work' = r.work
        /\ untouched' = [untouched EXCEPT ![step] = @ /\ r.work = work]
        /\ ckpt' = [op |-> "restore", step |-> step, ok |-> r.ok,
                    changed |-> r.work # work,
                    fresh |-> untouched[step],
                    complete |-> \A f \in Range(required_files(step)) :
                                    work[f] # Absent,
                    overwrote |-> FALSE]
  /\ att' = NoAttempt
  /\ gw' = NoGateway
  /\ UNCHANGED <<current_step, completed_steps, errors, cpDir, cp, pc,
                 attempted, driven, ops>>
  /\ UNCHANGED outside
  /\ artifactUsers' = artifactUsers \cup {inst}
  /\ UNCHANGED validated

(***************************************************************************)
(* SimulationWorkflow.__init__ (simulation.py 27-33): a controller is      *)
(* started for the pipeline, in the same working directory.                *)
(***************************************************************************)
Construct ==
  /\ pc = "idle"
  /\ current_step' = DefaultStatus.current_step
  /\ completed_steps' = DefaultStatus.completed_steps
  /\ errors' = DefaultStatus.errors
  /\ att' = NoAttempt
  /\ gw' = NoGateway
  /\ ckpt' = NoCheckpointCall
  /\ attempted' = {}
  /\ driven' = -1
  /\ startRecord' = registry.completed_steps
  /\ UNCHANGED <<work, cpDir, cp, pc, untouched, ops, ckptOps, registry,
                 parked, other, inst, artifactUsers, validated>>
  /\ UNCHANGED serviceState
  /\ UNCHANGED serverState

(***************************************************************************)
(* update_workflow of the service and of the MCP tool (service.py 134-150, *)
(* workflow_manager.py 123-152).                                           *)
(***************************************************************************)
UpdateWorkflow(given, status) ==
  /\ registry' = IF metadata.state = "saved"
                 THEN update_workflow(registry, given, status)
                 ELSE registry
  /\ UNCHANGED <<current_step, completed_steps, errors, work, cpDir, cp, pc,
                 att, gw, ckpt, untouched, attempted, driven, ops, ckptOps,
                 startRecord, parked, other, inst, artifactUsers, validated>>
  /\ UNCHANGED serviceState
  /\ UNCHANGED serverState

(***************************************************************************)
(* The event loop: a run_* coroutine of the instance is suspended at its   *)
(* await and another task that calls a run_* method of the same instance   *)
(* is scheduled.  The tasks share the fields of the instance.              *)
(***************************************************************************)
SwitchTask ==
  /\ parked' = [pc |-> pc, att |-> att]
  /\ pc' = parked.pc
  /\ att' = parked.att
  /\ UNCHANGED <<current_step, completed_steps, errors, work, cpDir, cp, gw,
                 ckpt, untouched, attempted, driven, ops, ckptOps, registry,
                 startRecord, other, inst, artifactUsers, validated>>
  /\ UNCHANGED serviceState
  /\ UNCHANGED serverState

(***************************************************************************)
(* The event loop schedules a task of the second SimulationWorkflow        *)
(* instance of the process.  An instance has its own status and its own    *)
(* coroutine; self.work_dir of every instance is Path.cwd()                *)
(* (simulation.py 29), so the files are those of the same directory.       *)
(***************************************************************************)
SwitchInstance ==
  /\ other' = [current_step |-> current_step,
               completed_steps |-> completed_steps,
               errors |-> errors, pc |-> pc, att |-> att,
               attempted |-> attempted]
  /\ current_step' = other.current_step
  /\ completed_steps' = other.completed_steps
  /\ errors' = other.errors
  /\ pc' = other.pc
  /\ att' = other.att
  /\ attempted' = other.attempted
  /\ inst' = 3 - inst
  /\ driven' = -1
  /\ UNCHANGED <<work, cpDir, cp, gw, ckpt, untouched, ops, ckptOps, registry,
                 startRecord, parked, artifactUsers, validated>>
  /\ UNCHANGED serviceState
  /\ UNCHANGED serverState

\* the document the record file holds
CurrentDoc == to_dict(metadata.name, metadata.params, registry)

\* the number of bytes of the record file
CurrentLength ==
  IF metadata.state = "saved" THEN DocLength(CurrentDoc)
  ELSE IF metadata.state = "truncated" THEN 0
  ELSE metadata.length

\* what the service layer leaves alone
controller ==
  <<current_step, completed_steps, errors, work, cpDir, cp, pc, att, ckpt,
    untouched, attempted, driven, ops, ckptOps, startRecord, parked, other,
    inst, artifactUsers, validated, server>>

\* update_workflow(workflow_id, name=..., params=...)
UpdateDetails(name, params) ==
  /\ metadata.state = "saved"
  /\ metadata' = [metadata EXCEPT !.name = name, !.params = params]
  /\ UNCHANGED <<controller, gw, registry, exported, imported, prep, writers, lastSave>>
  /\ UNCHANGED stageDir

(***************************************************************************)
(* export_workflow / import_workflow (service.py 177-206).                 *)
(***************************************************************************)
ExportWorkflow ==
  /\ exported' = IF metadata.state = "saved"
                 THEN to_dict(metadata.name, metadata.params, registry)
                 ELSE exported
  /\ UNCHANGED <<controller, gw, registry, metadata, imported, prep, writers, lastSave>>
  /\ UNCHANGED stageDir

ImportWorkflow ==
  /\ exported.exists
  /\ imported' = [record |-> import_workflow(exported), document |-> exported]
  /\ UNCHANGED <<controller, gw, registry, metadata, exported, prep, writers, lastSave>>
  /\ UNCHANGED stageDir

(***************************************************************************)
(* prepare_simulation (service.py 340-813): the checks before the first    *)
(* gateway call, then one action per awaited gateway call; the last one    *)
(* runs to the return, the status update included.                         *)
(***************************************************************************)
PrepareStart(known, structure) ==
  /\ prep.pc = 0
  /\ prep' = IF known /\ metadata.state = "saved" /\ structure
             THEN [pc |-> 1, result |-> "none"]
             ELSE [pc |-> 0, result |-> "failure"]
  /\ UNCHANGED <<controller, gw, registry, metadata, exported, imported, writers,
                 lastSave>>
  /\ UNCHANGED stageDir

PrepareStep(outcome) ==
  /\ prep.pc \in 1..Len(PrepareCommands)
  /\ LET r == run_gromacs_command(CtxOther, outcome)
         last == prep.pc = Len(PrepareCommands)
     IN /\ gw' = GatewayRecord(PrepareCommands[prep.pc], CtxOther, outcome, r)
        /\ prep' = IF ~ r.success THEN [pc |-> 0, result |-> "failure"]
                   ELSE IF last THEN [pc |-> 0, result |-> "success"]
                   ELSE [pc |-> prep.pc + 1, result |-> "none"]
        /\ registry' = IF r.success /\ last /\ metadata.state = "saved"
                       THEN update_workflow(registry, TRUE, PreparedStatus)
                       ELSE registry
        /\ stageDir' = IF r.success /\ last
                       THEN stageDir \cup PreparedFiles
                       ELSE stageDir
  /\ UNCHANGED <<controller, metadata, exported, imported, writers, lastSave>>

(***************************************************************************)
(* WorkflowManager.update_workflow (workflow_manager.py 123-152) called by *)
(* a process w while another process calls it for the same record.  The   *)
(* steps of one call: get_workflow and the assignments, open(file, 'w') of *)
(* _save_metadata, which truncates the file, and the write of the          *)
(* buffered text at offset 0 when the file is closed.                      *)
(***************************************************************************)
WriterRead(w, givenName, name, givenStatus, status) ==
  /\ writers[w].pc = "idle"
  /\ writers' = [writers EXCEPT ![w] =
        IF metadata.state = "saved"
        THEN [pc |-> "modified", ok |-> TRUE,
              doc |-> to_dict(IF givenName THEN name ELSE metadata.name,
                              metadata.params,
                              update_workflow(registry, givenStatus, status))]
        ELSE [pc |-> "idle", ok |-> FALSE, doc |-> NoDocument]]
  /\ UNCHANGED <<controller, gw, registry, metadata, exported, imported, prep,
                 lastSave>>
  /\ UNCHANGED stageDir

WriterOpen(w) ==
  /\ writers[w].pc = "modified"
  /\ writers' = [writers EXCEPT ![w].pc = "opened"]
  /\ metadata' = [metadata EXCEPT !.state = "truncated", !.length = 0]
  /\ UNCHANGED <<controller, gw, registry, exported, imported, prep, lastSave>>
  /\ UNCHANGED stageDir

WriterFlush(w) ==
  /\ writers[w].pc = "opened"
  /\ LET doc == writers[w].doc
         whole == CurrentLength <= DocLength(doc)
     IN /\ metadata' = [state |-> IF whole THEN "saved" ELSE "torn",
                        name |-> doc.name, params |-> doc.params,
                        length |-> IF whole THEN 0 ELSE CurrentLength]
        /\ registry' = doc.status
        /\ lastSave' = [by |-> w, doc |-> doc]
  /\ writers' = [writers EXCEPT ![w].pc = "idle"]
  /\ UNCHANGED <<controller, gw, exported, imported, prep>>
  /\ UNCHANGED stageDir

\* what the server tools leave alone
beyondServer ==
  <<current_step, completed_steps, errors, work, cpDir, cp, pc, att, ckpt,
    untouched, attempted, driven, ops, ckptOps, startRecord, parked, other,
    inst, artifactUsers, validated, registry, serviceState>>

(***************************************************************************)
(* run_md_simulation_stage_tool (mcp_server.py 956-1136), to the call of   *)
(* the sequence tool and into its loop, up to the first await.             *)
(***************************************************************************)
CallStageTool(known, stage) ==
  /\ server.pc = "idle"
  /\ LET call == [NoToolCall EXCEPT !.tool = "stage", !.known = known,
                                    !.stage = stage]
         commands == stage_commands(stage)
     IN server' =
          IF ~ known \/ metadata.state # "saved"
          THEN [call EXCEPT !.ret = "failure"]
          ELSE IF ~ prerequisites_met(stage, stageDir)
          THEN [call EXCEPT !.ret = "failure"]
          ELSE IF commands = <<>>
          THEN [call EXCEPT !.ret = "failure"]
          ELSE [call EXCEPT !.pc = "seq", !.input = commands]
  /\ UNCHANGED <<beyondServer, gw, stageDir>>

(***************************************************************************)
(* execute_gromacs_command_sequence_tool (mcp_server.py 857-953) called by *)
(* a client, up to the first await.                                        *)
(***************************************************************************)
CallSequenceTool(known, commands) ==
  /\ server.pc = "idle"
  /\ LET call == [NoToolCall EXCEPT !.tool = "sequence", !.known = known,
                                    !.input = commands]
     IN server' =
          IF ~ known
          THEN [call EXCEPT !.ret = "failure"]
          ELSE IF commands = <<>>
          THEN [call EXCEPT !.ret = IF all_success(<<>>) THEN "success"
                                    ELSE "failure"]
          ELSE [call EXCEPT !.pc = "seq"]
  /\ UNCHANGED <<beyondServer, gw, stageDir>>

\* one turn of the loop: execute_gromacs_command (mcp_server.py 413-531)
\* for the next command of the list, the test of its result and, when the
\* loop ends, the return of the tool
ExecCommand(outcome, produced) ==
  /\ server.pc = "seq"
  /\ LET command == server.input[Len(server.executed) + 1]
         present == command.inputs \subseteq stageDir
         r == run_gromacs_command(CtxOther, outcome)
         success == present /\ r.success
         results == Append(server.results, success)
         executed == Append(server.executed, command)
         over == stops_sequence(success) \/ Len(executed) = Len(server.input)
     IN /\ produced \subseteq command.outputs
        /\ ~ present => produced = {}
        /\ outcome = SpawnFailed => produced = {}
        /\ gw' = IF present
                 THEN GatewayRecord(command.command, CtxOther, outcome, r)
                 ELSE gw
        /\ stageDir' = stageDir \cup produced
        /\ server' = [server EXCEPT
              !.executed = executed,
              !.results = results,
              !.engineCalls = IF present THEN @ + 1 ELSE @,
              !.pc = IF over THEN "idle" ELSE "seq",
              !.ret = IF ~ over THEN "none"
                      ELSE IF all_success(results) THEN "success"
                      ELSE "failure"]
  /\ UNCHANGED beyondServer

\* the controller: phase runs awaited one after the other
Next ==
  \/ \E step \in RunSteps, ctx \in Contexts : StartRun(step, ctx)
  \/ \E outcome \in EngineOutcomes : Grompp(outcome)
  \/ \E outcome \in EngineOutcomes, wr \in EngineWrites(att.step) : Mdrun(outcome, wr)
  \/ \E outcome \in EngineOutcomes : MonitorPoll(outcome)

Spec == Init /\ [][Next]_vars

\* the checkpoint store, with runs of the first phase between its calls
NextCkpt ==
  \/ ops < MaxCkptRuns /\ \E ctx \in Contexts : StartRun(MINIMIZATION, ctx)
  \/ \E outcome \in EngineOutcomes : Grompp(outcome)
  \/ \E outcome \in EngineOutcomes, wr \in EngineWrites(att.step) : Mdrun(outcome, wr)
  \/ \E outcome \in EngineOutcomes : MonitorPoll(outcome)
  \/ \E step \in SimulationStep : Backup(step)
  \/ \E step \in SimulationStep : Restore(step)

SpecCkpt == Init /\ [][NextCkpt]_vars

\* the controller and the registry of its pipeline
NextReg ==
  \/ ops < MaxCkptRuns /\ \E step \in RunSteps, ctx \in Contexts : StartRun(step, ctx)
  \/ \E outcome \in EngineOutcomes : Grompp(outcome)
  \/ \E outcome \in EngineOutcomes, wr \in EngineWrites(att.step) : Mdrun(outcome, wr)
  \/ \E outcome \in EngineOutcomes : MonitorPoll(outcome)
  \/ Construct
  \/ \E given \in BOOLEAN, status \in CallerStatuses : UpdateWorkflow(given, status)

SpecReg == Init /\ [][NextReg]_vars

\* the controller, with the run process of an attempt observed in flight
NextFlight ==
  \/ ops < MaxCkptRuns /\ \E step \in RunSteps, ctx \in Contexts : StartRun(step, ctx)
  \/ \E outcome \in EngineOutcomes : Grompp(outcome)
  \/ \E started \in BOOLEAN : MdrunSpawn(started)
  \/ \E f \in AllFiles, content \in {Empty} \cup LogContents \cup DataContents :
        EngineWrite(f, content)
  \/ \E outcome \in ExitCodes : MdrunExit(outcome)
  \/ \E outcome \in EngineOutcomes : MonitorPoll(outcome)

SpecFlight == Init /\ [][NextFlight]_vars

\* run_* methods of one instance called from concurrent tasks
NextTasks ==
  \/ ops < MaxCkptRuns /\ \E step \in RunSteps, ctx \in Contexts : StartRun(step, ctx)
  \/ \E outcome \in EngineOutcomes : Grompp(outcome)
  \/ \E outcome \in EngineOutcomes, wr \in EngineWrites(att.step) : Mdrun(outcome, wr)
  \/ \E outcome \in EngineOutcomes : MonitorPoll(outcome)
  \/ SwitchTask

SpecTasks == Init /\ [][NextTasks]_vars

\* two SimulationWorkflow instances of one process run concurrently
NextInst ==
  \/ ops < MaxCkptRuns /\ \E step \in RunSteps, ctx \in Contexts : StartRun(step, ctx)
  \/ \E outcome \in EngineOutcomes : Grompp(outcome)
  \/ \E outcome \in EngineOutcomes, wr \in EngineWrites(att.step) : Mdrun(outcome, wr)
  \/ \E outcome \in EngineOutcomes : MonitorPoll(outcome)
  \/ SwitchInstance

SpecInst == Init /\ [][NextInst]_vars

\* the operations of the service on the registry record of a pipeline
NextService ==
  \/ \E given \in BOOLEAN, status \in CallerStatuses : UpdateWorkflow(given, status)
  \/ \E name \in Names, params \in Params : UpdateDetails(name, params)
  \/ ExportWorkflow
  \/ ImportWorkflow
  \/ \E known \in BOOLEAN, structure \in BOOLEAN : PrepareStart(known, structure)
  \/ \E outcome \in EngineOutcomes : PrepareStep(outcome)

SpecService == Init /\ [][NextService]_vars

\* two processes update the record of one pipeline
NextWriters ==
  \/ \E w \in Writers, givenName \in BOOLEAN, name \in Names,
        givenStatus \in BOOLEAN, status \in CallerStatuses :
        WriterRead(w, givenName, name, givenStatus, status)
  \/ \E w \in Writers : WriterOpen(w)
  \/ \E w \in Writers : WriterFlush(w)

SpecWriters == Init /\ [][NextWriters]_vars

\* the files the engine can write for the next command of the list
NextOutputs ==
  IF server.pc = "seq"
  THEN server.input[Len(server.executed) + 1].outputs
  ELSE {}

\* the tools of the MCP server called for one workflow by a client that
\* waits for the answer to a call before it sends the next
NextServer ==
  \/ /\ server.pc = "idle"
     /\ \E known \in BOOLEAN, structure \in BOOLEAN :
          PrepareStart(known, structure)
  \/ \E outcome \in EngineOutcomes : PrepareStep(outcome)
  \/ /\ prep.pc = 0
     /\ \E known \in BOOLEAN, stage \in StageNames \cup {UnknownStage} :
          CallStageTool(known, stage)
  \/ /\ prep.pc = 0
     /\ \E known \in BOOLEAN, commands \in SequenceInputs :
          CallSequenceTool(known, commands)
  \/ \E outcome \in EngineOutcomes, produced \in SUBSET NextOutputs :
        ExecCommand(outcome, produced)

SpecServer == Init /\ [][NextServer]_vars

TypeOK ==
  /\ current_step \in RunSteps \cup {"none"}
  /\ pc \in {"idle", "grompp", "mdrun", "running", "monitor"}
  /\ \A f \in AllFiles : work[f] \in {Absent, Empty} \cup ContentsOf(f)
  /\ \A f \in AllFiles : cp[f] \in {Absent, Empty} \cup ContentsOf(f)
  /\ attempted \subseteq RunSteps
  /\ driven \in -1..Len(RunOrder)
  /\ ops \in 0..MaxOps
  /\ ckptOps \in 0..MaxCkptOps
  /\ registry \in CallerStatuses
  /\ parked.pc \in {"idle", "grompp", "mdrun", "running", "monitor"}
  /\ other.pc \in {"idle", "grompp", "mdrun", "running", "monitor"}
  /\ inst \in 1..2
  /\ artifactUsers \subseteq 1..2
  /\ validated \subseteq RunSteps
  /\ metadata.state \in {"saved", "truncated", "torn"}
  /\ metadata.name \in Names
  /\ metadata.params \in Params
  /\ exported.status \in CallerStatuses
  /\ imported.record.status \in CallerStatuses
  /\ prep.pc \in 0..Len(PrepareCommands)
  /\ \A w \in Writers : writers[w].pc \in {"idle", "modified", "opened"}
  /\ lastSave.by \in {0} \cup Writers
  /\ server.pc \in {"idle", "seq"}
  /\ server.ret \in {"none", "success", "failure"}
  /\ Len(server.results) = Len(server.executed)
  /\ Len(server.executed) <= Len(server.input)
  /\ prep.result \in {"none", "success", "failure"}
  /\ \E k \in 0..MaxRecorded : startRecord = SubSeq(PhaseOrder, 1, k)

(***************************************************************************)
(* Properties.                                                             *)
(***************************************************************************)
AttemptOver == pc = "idle" /\ att.result \in {"success", "failed"}

\* the attempt did not add its step to completed_steps
NotAdded == Occurrences(completed_steps, att.step) = att.occBefore

\* C1: a phase run invoked while the predecessor of the phase is not in
\* completed_steps fails with the ordering error and invokes the gateway
\* not once
C1_OrderingErrorBeforeGateway ==
  (att.step # "none" /\ att.predMissing) =>
    /\ att.result = "failed"
    /\ errors[att.step] = ErrOrder
    /\ att.gwCalls = 0

\* C2: between attempts, every phase attempted at least once is in exactly
\* one of errors and completed_steps
C2_ErrorsXorCompleted ==
  pc = "idle" =>
    \A s \in attempted : (errors[s] # NoError) # InCompleted(s)

\* C2 witness: a phase has been run again after a failed run
C2_Witness ==
  /\ AttemptOver
  /\ ops >= 2
  /\ att.step = MINIMIZATION
  /\ att.sawDone
  /\ errors[MINIMIZATION] = ErrEnergy
  /\ errors[NVT_EQUILIBRATION] = ErrOrder
  /\ ~ InCompleted(MINIMIZATION)

\* C3: when the phases have been run in order against an engine that exits
\* zero, writes every required file non-empty and ends each log with the
\* completion marker, completed_steps lists the five phases in order and
\* errors has no entry
C3_EndToEnd ==
  (pc = "idle" /\ driven = Len(RunOrder)) =>
    /\ completed_steps = <<SYSTEM_PREPARATION>> \o RunOrder
    /\ \A s \in RunSteps : errors[s] = NoError

\* C5: once the monitor has read the fatal marker in the log of the phase,
\* the attempt is over and failed, errors holds the monitor's message for
\* the phase, and the phase has not been added to completed_steps
C5_FatalMarkerFailsPhase ==
  att.sawFatal =>
    /\ AttemptOver
    /\ att.result = "failed"
    /\ errors[att.step] = ErrMonitor
    /\ NotAdded

\* C5 witness: an attempt whose monitor read the fatal marker has ended
C5_Witness ==
  /\ att.sawFatal
  /\ att.result = "failed"
  /\ att.gwCalls = 2
  /\ att.runExit \in ExitCodes

\* C6: when the run step exited zero, the monitor signalled Done and a
\* required output file is missing or empty, the attempt fails with the
\* validation error, the phase is not added to completed_steps and the
\* attempt creates no checkpoint directory for the phase
C6_MissingOutputFailsValidation ==
  (att.runExit = 0 /\ att.sawDone /\ att.incomplete) =>
    /\ AttemptOver
    /\ att.result = "failed"
    /\ errors[att.step] = ErrFiles
    /\ NotAdded
    /\ cpDir[att.step] = att.cpDirAtStart

\* C6 witness: such an attempt has ended, with an empty required file and
\* no checkpoint directory of the phase
C6_Witness ==
  /\ att.runExit = 0
  /\ att.sawDone
  /\ att.incomplete
  /\ work["em.edr"] = Empty
  /\ work["em.gro"] # Absent
  /\ ~ cpDir[att.step]
  /\ AttemptOver

\* C7: as soon as a failure of one of the kinds has occurred in an attempt,
\* the attempt is over and failed with errors set for the phase, the phase
\* is not added to completed_steps and no gateway invocation follows
C7_FailureEndsAttempt ==
  (att.step # "none" /\ att.fails # {}) =>
    /\ AttemptOver
    /\ att.result = "failed"
    /\ errors[att.step] # NoError
    /\ NotAdded
    /\ ~ att.gwAfterFail

\* C8: a restore that reports failure has left the working directory as it
\* was
C8_RestoreAllOrNothing ==
  (ckpt.op = "restore" /\ ~ ckpt.ok) => ~ ckpt.changed

\* C9 as stated: restore(P) after backup(P), with the working directory
\* untouched in between, reports success and changes no file
C9_RoundTripAnyDirectory ==
  (ckpt.op = "restore" /\ ckpt.fresh) => (ckpt.ok /\ ~ ckpt.changed)

\* C9: restore(P) after backup(P), with the working directory untouched in
\* between and holding every required output file of P, reports success and
\* leaves every file with the content it had before the backup
C9_RoundTrip ==
  (ckpt.op = "restore" /\ ckpt.fresh /\ ckpt.complete) =>
    (ckpt.ok /\ ~ ckpt.changed)

\* C9 witness: a round trip of a phase with four required files
C9_Witness ==
  /\ ckpt.op = "restore"
  /\ ckpt.step = NVT_EQUILIBRATION
  /\ ckpt.fresh
  /\ ckpt.complete
  /\ ckpt.ok
  /\ cp["nvt.cpt"] = work["nvt.cpt"]
  /\ work["nvt.cpt"] # Absent

\* C10: no invocation of the gateway raises to its caller
C10_GatewayNeverRaises ==
  gw.cmd # "none" => ~ gw.raised

\* C11: every result the gateway returns has success exactly when
\* return_code is 0; a process that exits comes back with its exit code, a
\* binary that cannot be started comes back as return_code -1, success false
C11_SuccessIffExitZero ==
  (gw.cmd # "none" /\ ~ gw.raised) =>
    /\ gw.success <=> (gw.return_code = 0)
    /\ gw.outcome \in ExitCodes => gw.return_code = gw.outcome
    /\ gw.outcome = SpawnFailed => (gw.return_code = -1 /\ ~ gw.success)

\* C11 witness: the run step's process exited non-zero and the gateway
\* returned it as a result
C11_Witness ==
  /\ gw.cmd = "mdrun"
  /\ ~ gw.raised
  /\ gw.outcome = 1
  /\ gw.return_code = 1
  /\ ~ gw.success

\* the status the controller holds in memory
InMemoryStatus ==
  [current_step |-> current_step, completed_steps |-> completed_steps,
   errors |-> errors]

\* C12: after every phase attempt the status stored in the registry record
\* of the pipeline equals the status the controller holds in memory
C12_RegistryFollowsController == AttemptOver => registry = InMemoryStatus

\* C13: a controller started for a pipeline whose registry record lists the
\* predecessor of a phase as completed passes the precondition check of a
\* run of that phase
C13_ResumesFromRecord ==
  (AttemptOver /\ \E i \in 1..Len(startRecord) : startRecord[i] = Predecessor(att.step))
    => errors[att.step] # ErrOrder

\* _monitor_progress of the attempt has been entered
MonitorStarted ==
  pc = "monitor" \/ att.polls > 0 \/ att.sawFatal \/ att.sawDone

\* C14: the progress monitor runs while the run process is in flight:
\* whenever the fatal marker has become the last line of the log and the run
\* process has not exited, the monitor of the attempt is polling the log
C14_MonitorWhileInFlight ==
  (pc = "running" /\ att.fatalInFlight) => MonitorStarted

\* C15: for one pipeline instance no two phase attempts are in progress at
\* the same time, also when the run_* methods are called from concurrent
\* tasks: the steps of one attempt do not interleave with those of another
C15_OneAttemptAtATime == ~ (pc # "idle" /\ parked.pc # "idle")

\* C16: two pipeline instances that run concurrently share no mutable
\* state: the files of the working directory that one instance reads or
\* writes are never read or written by the other
C16_InstancesIsolated == Cardinality(artifactUsers) <= 1

\* C17: a checkpoint of a phase exists only if an attempt of the phase has
\* passed output validation, and no operation changes the content of a
\* checkpoint directory that exists
C17_CheckpointAfterValidationImmutable ==
  /\ \A s \in SimulationStep : cpDir[s] => s \in validated
  /\ ~ ckpt.overwrote

\* C18: an attempt of a phase P and a backup of P leave unchanged the
\* checkpoint directory of every other phase and the membership of every
\* other phase in completed_steps and in errors
C18_FrameOfAttemptAndBackup ==
  [][LET isCkpt == ckptOps' # ckptOps
         P == IF isCkpt THEN ckpt'.step ELSE att'.step
     IN (isCkpt => ckpt'.op = "backup") =>
          \A Q \in SimulationStep \ {P} :
            /\ cpDir'[Q] = cpDir[Q]
            /\ \A f \in Range(files_to_backup(Q)) : cp'[f] = cp[f]
            /\ (\E i \in 1..Len(completed_steps') : completed_steps'[i] = Q)
                 <=> (\E i \in 1..Len(completed_steps) : completed_steps[i] = Q)
            /\ Q \in RunSteps =>
                 ((errors'[Q] = NoError) <=> (errors[Q] = NoError))]_vars

\* C18 witness: a backup of the second phase has copied its files while the
\* first phase has an error entry, a checkpoint and files in the working
\* directory that differ from its checkpoint
C18_Witness ==
  /\ ckpt.op = "backup"
  /\ ckpt.step = NVT_EQUILIBRATION
  /\ cp["nvt.gro"] # Absent
  /\ errors[MINIMIZATION] # NoError
  /\ cpDir[MINIMIZATION]
  /\ cp["em.gro"] # work["em.gro"]

\* C20: the controller is forward-only: current_step never changes from a
\* phase to a phase that precedes it in the fixed order
C20_ForwardOnly ==
  [][(current_step # "none" /\ current_step' # "none")
       => StepIndex(current_step') >= StepIndex(current_step)]_vars

\* C23: when the prepare step (grompp) of a phase returns a non-zero exit
\* code the attempt ends there: the run step is not invoked, the progress
\* monitor is not started and the phase is not added to completed_steps
C23_PrepareFailureAborts ==
  (gw.cmd = "grompp" /\ ~ gw.raised /\ gw.return_code # 0) =>
    /\ pc = "idle"
    /\ att.result = "failed"
    /\ att.gwCalls = 1
    /\ att.runExit = NotRun
    /\ ~ MonitorStarted
    /\ NotAdded

\* C23 witness: grompp has exited with code 1 and the attempt has failed
\* with the prepare error
C23_Witness ==
  /\ gw.cmd = "grompp"
  /\ gw.outcome = 1
  /\ gw.return_code = 1
  /\ att.result = "failed"
  /\ errors[att.step] = ErrGrompp

\* what the last poll of the progress monitor did, the carried line apart:
\* Done on the completion marker, Failed on the fatal marker, and on a log
\* that is missing, empty or ends with another line no signal, no failure
\* and the loop still polling
MonitorDecision ==
  /\ att.lastSeen = LogDone => (att.sawDone /\ pc = "idle")
  /\ att.lastSeen = LogFatal =>
       (pc = "idle" /\ att.result = "failed" /\ errors[att.step] = ErrMonitor)
  /\ att.lastSeen \in {Absent, Empty, LogOther} =>
       (pc = "monitor" /\ att.result = "running" /\ "fatal" \notin att.fails)

\* C24: the progress monitor decides from the last line of the log at each
\* poll: Done when it holds the completion marker, Failed carrying that line
\* when it holds the fatal marker, and otherwise no signal and another poll
C24_MonitorDecidesFromLastLine ==
  /\ MonitorDecision
  /\ att.lastSeen = LogFatal => att.signalLine = att.lastSeen

\* C27: an attempt ends once the engine process has terminated: after a run
\* step that returned a spawn failure or a non-zero exit the attempt is not
\* left polling a log that holds neither marker
C27_AttemptEndsAfterEngineFailure ==
  ~ /\ pc = "monitor"
    /\ att.runExit \notin {0, NotRun}
    /\ att.polls >= 1
    /\ monitor_verdict(work[log_file(att.step)]) = "pending"

\* C30: within an attempt the log the progress monitor polls and the files
\* validation checks are those the run step wrote in ctx.working_dir, for
\* every context: a run that wrote all its outputs and the completion
\* marker is seen as Done and passes output validation
C30_MonitorReadsRunDirectory ==
  (att.wroteAll /\ att.lastSeen # NoLine) =>
    (att.lastSeen = LogDone /\ ~ att.incomplete)

\* C22: exporting a record and importing the exported document yields a
\* record whose status and parameter snapshot equal those of the exported
\* record
C22_ExportImportRoundTrip ==
  imported.record.exists =>
    /\ imported.record.status = imported.document.status
    /\ imported.record.params = imported.document.params

\* C28: no operation of the service removes a phase from the completed_steps
\* of the registry record
C28_RecordedPhasesKept ==
  [][\A i \in 1..Len(registry.completed_steps) :
       \E j \in 1..Len(registry'.completed_steps) :
         registry'.completed_steps[j] = registry.completed_steps[i]]_vars

\* C21: when the read-modify-write steps of two writers of one record
\* interleave, the record persisted after both have finished is exactly the
\* document saved by the writer that wrote last
C21_LastWriteWins ==
  (lastSave.by # 0 /\ \A w \in Writers : writers[w].pc = "idle") =>
    (metadata.state = "saved" /\ CurrentDoc = lastSave.doc)

\* what the claims say of a call of the sequence tool
SequenceInOrder ==
  server.executed = SubSeq(server.input, 1, Len(server.executed))

SequenceStopsAtFailure ==
  \A i \in 1..(Len(server.results) - 1) : server.results[i]

SequenceAllRan ==
  /\ Len(server.executed) = Len(server.input)
  /\ \A i \in 1..Len(server.results) : server.results[i]

SequenceReturned == server.pc = "idle" /\ server.ret # "none"

\* C25 as stated: the sequence tool executes the commands of its list in
\* order, executes none after the first that did not succeed, and returns
\* success exactly when every command of the list was executed and succeeded.
C25_SequenceAsStated ==
  server.tool = "sequence" =>
    /\ SequenceInOrder
    /\ SequenceStopsAtFailure
    /\ SequenceReturned => (server.ret = "success" <=> SequenceAllRan)

\* C25 amended: for a workflow whose directory exists the sequence tool
\* executes the commands in order, stops after the first that did not
\* succeed and returns success exactly when every command was executed and
\* succeeded; for a workflow without a directory it executes no command and
\* returns a failure, whatever the list.
C25_SequenceInOrderUntilFailure ==
  server.tool = "sequence" =>
    /\ SequenceInOrder
    /\ SequenceStopsAtFailure
    /\ (SequenceReturned /\ server.known) =>
         (server.ret = "success" <=> SequenceAllRan)
    /\ (SequenceReturned /\ ~ server.known) =>
         (server.ret = "failure" /\ server.executed = <<>>)

\* a list of three commands stopped at its second command
C25_Witness ==
  /\ server.tool = "sequence" /\ server.known /\ SequenceReturned
  /\ Len(server.input) = 3 /\ Len(server.executed) = 2
  /\ server.results = <<TRUE, FALSE>> /\ server.ret = "failure"

\* the outputs of the predecessors of a stage are missing
PredecessorsMissing(stage) ==
  \/ stage \in {"nvt", "npt", "production"} /\ "em/em.gro" \notin stageDir
  \/ stage \in {"npt", "production"}
       /\ ~ {"nvt/nvt.gro", "nvt/nvt.cpt"} \subseteq stageDir
  \/ stage = "production"
       /\ ~ {"npt/npt.gro", "npt/npt.cpt"} \subseteq stageDir

\* C26: a call of the stage tool for a stage whose predecessors' outputs are
\* missing, for an unknown stage name or for an unknown workflow executes no
\* engine command and returns a failure.
C26_StageRefusedWithoutPredecessors ==
  (server.tool = "stage"
     /\ (\/ ~ server.known
         \/ server.stage \notin StageNames
         \/ PredecessorsMissing(server.stage))) =>
    /\ server.engineCalls = 0 /\ server.executed = <<>>
    /\ server.pc = "idle" /\ server.ret = "failure"

\* npt asked for after an nvt run that left no checkpoint
C26_Witness ==
  /\ server.tool = "stage" /\ server.known /\ server.stage = "npt"
  /\ {"em/em.gro", "nvt/nvt.gro"} \subseteq stageDir
  /\ "nvt/nvt.cpt" \notin stageDir
  /\ server.ret = "failure" /\ server.engineCalls = 0

\* the phase of the controller a stage of the server stands for
StagePhase(stage) ==
  CASE stage = "minimization" -> MINIMIZATION
    [] stage = "nvt" -> NVT_EQUILIBRATION
    [] stage = "npt" -> NPT_EQUILIBRATION
    [] stage = "production" -> PRODUCTION

\* C29: after a stage run through the server tool succeeded the registry
\* record lists the phase among its completed steps, and after it failed
\* the record holds an error entry.
C29_RegistryFollowsStageTool ==
  (server.tool = "stage" /\ server.known /\ server.stage \in StageNames
     /\ metadata.state = "saved" /\ SequenceReturned) =>
    /\ server.ret = "success" =>
         \E i \in 1..Len(registry.completed_steps) :
           registry.completed_steps[i] = StagePhase(server.stage)
    /\ server.ret = "failure" =>
         registry.errors[StagePhase(server.stage)] # NoError

====
